---- MODULE Spec2Model ----
(***************************************************************************)
(* Model of pypose.module.MPC (src/pypose/module/mpc.py): the iterative    *)
(* LQR driver MPC.forward, its best-so-far bookkeeping and its terminal    *)
(* solve.  Tensors are abstracted to a value identity, a flag telling      *)
(* whether the tensor carries autograd history, and their ndim.  Costs and *)
(* eps are integers on a common scale.  pp.module.LQR is not part of the   *)
(* sources at hand; it is modelled as a deterministic map from (problem,   *)
(* nominal input values) to an outcome, decided lazily at the first call   *)
(* with a given key and remembered in lqrFn.  A behaviour is a first call   *)
(* with any arguments, followed by repeated calls with the same arguments. *)
(***************************************************************************)
EXTENDS Integers, Sequences, FiniteSets, TLC

\* ---- bounds -------------------------------------------------------------
MaxStep == 3    \* largest iteration budget given to MPC.__init__
MaxEps  == 1    \* largest tolerance given to MPC.__init__
MaxU    == 1    \* input-trajectory values are 0..MaxU
MaxCost == 2    \* costs are 0..MaxCost
MaxProb == 1    \* problems (Q, p, x_init, dt) are numbered 0..MaxProb
MaxCalls == 2   \* calls of forward on the one instance, same arguments

\* ---- program constants ---------------------------------------------------
HorizonT == 5   \* T of the docstring example
ReqNdim  == 3   \* the ndim the in-loop assertion requires

VARIABLES
    system, T, step, eps,      \* fields of the MPC instance
    pc,                        \* "idle" | "loop" | "done" | "raised"
    inp,                       \* the caller's arguments of the running call
    best, u, x, cost, i,       \* locals of forward
    current_u,                 \* the local current_u (rebound at line 191)
    ret, exc,                  \* what the call returned / raised
    trace,                     \* the LQR solves of the running call, in order
    lqrFn,                     \* the LQR map as far as it has been decided
    log                        \* finished calls: arguments and outcome

vars == <<system, T, step, eps, pc, inp, best, u, x, cost, i, current_u,
          ret, exc, trace, lqrFn, log>>

\* ---- values --------------------------------------------------------------
UVals    == 0..MaxU
Costs    == 0..MaxCost
Ndims    == {2, ReqNdim}

None     == [val |-> -1, graph |-> FALSE, ndim |-> 0]
Tensor(v, g, n) == [val |-> v, graph |-> g, ndim |-> n]

\* current_u as a caller may pass it: None, a plain tensor, or one with history
CallerU  == {None} \cup {Tensor(v, g, ReqNdim) : v \in UVals, g \in BOOLEAN}

WellShaped(o) == o.kind = "ok" /\ o.xndim = ReqNdim /\ o.undim = ReqNdim

Problems == {[Q |-> k, p |-> k, x_init |-> k, dt |-> 1] : k \in 0..MaxProb}

NoBest   == [isNone |-> TRUE, u |-> None, cost |-> 0]
NoReturn == [x |-> None, u |-> None, cost |-> -1]
NoInp    == [Q |-> -1, p |-> -1, x_init |-> -1, dt |-> -1, current_u |-> None]

\* variant: detach() forgotten, the history is kept
Detach_kept(t) == t

\* Tensor.detach(): same values, no autograd history
Detach(t) == [t EXCEPT !.graph = FALSE]

\* ---- the LQR solver (pp.module.LQR) ---------------------------------------
Undecided == [kind |-> "undecided", u |-> 0, cost |-> 0, xndim |-> 0, undim |-> 0]
LQRError  == [kind |-> "error", u |-> 0, cost |-> 0, xndim |-> 0, undim |-> 0]

\* what one solve can produce: a failure, a well-shaped (x, u, cost), or an
\* ill-shaped one (whose values are immaterial and fixed to 0)
Outcomes ==
    {LQRError}
    \cup {[kind |-> "ok", u |-> v, cost |-> c, xndim |-> ReqNdim, undim |-> ReqNdim] :
              v \in UVals, c \in Costs}
    \cup {[kind |-> "ok", u |-> 0, cost |-> 0, xndim |-> a, undim |-> b] :
              a \in Ndims, b \in Ndims}

Keys == {<<k, v>> : k \in 0..MaxProb, v \in UVals \cup {-1}}
Key(a, nom) == <<a.Q, nom.val>>

\* Trajectory values are identities: only their equality is ever observed.  They
\* are numbered in order of first appearance, so a value new to the run is the
\* least number not yet seen (as an argument, a nominal input or an output).
Seen ==
    ({inp.current_u.val} \cup {k[2] : k \in {q \in Keys : lqrFn[q].kind # "undecided"}}
       \cup {lqrFn[k].u : k \in {q \in Keys : WellShaped(lqrFn[q])}}) \ {-1}

NextVals == {v \in UVals : v <= Cardinality(Seen)}

\* LQR(system, Q, p, T)(x_init, dt, nom): the outcomes the solve may have
LQR(a, nom) ==
    IF lqrFn[Key(a, nom)].kind = "undecided"
    THEN {o \in Outcomes : WellShaped(o) => o.u \in NextVals}
    ELSE {lqrFn[Key(a, nom)]}

\* the tensors of an "ok" outcome; x is the rollout of u from x_init
OutX(o) == Tensor(o.u, TRUE, o.xndim)
OutU(o) == Tensor(o.u, TRUE, o.undim)

SolveRec(a, nom, inloop, o) ==
    [system |-> system, T |-> T, Q |-> a.Q, p |-> a.p, x_init |-> a.x_init,
     dt |-> a.dt, nominal |-> nom, inLoop |-> inloop, out |-> o]

\* ---- pieces of MPC.forward -------------------------------------------------
\* variant: u is not rebound on entry, the previous call's u is reused
InitU_stale(cu) == u

InitU(cu) == cu                                  \* line 170

\* variant: off-by-one loop bound
LoopCond_le(k, n) == k <= n

LoopCond(k, n) == k < n                          \* line 172

\* variant: the shape assertion is dropped
AssertOk_off(xo, uo) == TRUE

AssertOk(xo, uo) == xo.ndim = ReqNdim /\ uo.ndim = ReqNdim     \* line 179

\* variant: strict improvement only
Accept_strict(c, b, e) == c < b.cost + e

\* variant: every candidate is accepted
Accept_always(c, b, e) == TRUE

Accept(c, b, e) == c <= b.cost + e               \* line 186

\* variant: an accepted candidate's cost is not stored (line 188 missing)
UpdateBest_nocost(b, uo, c, e) ==
    IF b.isNone THEN [isNone |-> FALSE, u |-> uo, cost |-> c]
    ELSE IF c <= b.cost + e THEN [b EXCEPT !.u = uo]
    ELSE b

\* variant: an accepted candidate's trajectory is not stored (line 187 missing)
UpdateBest_nou(b, uo, c, e) ==
    IF b.isNone THEN [isNone |-> FALSE, u |-> uo, cost |-> c]
    ELSE IF c <= b.cost + e THEN [b EXCEPT !.cost = c]
    ELSE b

UpdateBest(b, uo, c, e) ==                       \* lines 181-188
    IF b.isNone THEN [isNone |-> FALSE, u |-> uo, cost |-> c]
    ELSE IF Accept(c, b, e) THEN [b EXCEPT !.u = uo, !.cost = c]
    ELSE b

\* variants of the terminal test
UseBest_never(n) == FALSE
UseBest_ge1(n) == n >= 1
UseBest_ge0(n) == n >= 0

UseBest(n) == n > 1                              \* line 190

\* variant: the loop restarts from the best candidate, not the latest one
LoopNominal_best(uu) ==
    IF best.isNone THEN (IF uu # None THEN Detach(uu) ELSE uu) ELSE Detach(best.u)

\* the nominal input an in-loop solve is given; lines 174-178
LoopNominal(uu) == IF uu # None THEN Detach(uu) ELSE uu

Args(r) == [Q |-> r.Q, p |-> r.p, x_init |-> r.x_init, dt |-> r.dt]

LogRec(outcome, r, e) == [inp |-> inp, outcome |-> outcome, ret |-> r, exc |-> e]

\* an exception leaves forward: the call ends without a return value
Raise(e) ==
    /\ pc' = "raised"
    /\ exc' = e
    /\ ret' = NoReturn
    /\ log' = Append(log, LogRec("raise", NoReturn, e))

\* ---- actions ---------------------------------------------------------------
Init ==
    /\ system = "system"
    /\ T = HorizonT
    /\ step \in 0..MaxStep
    /\ eps \in 0..MaxEps
    /\ pc = "idle"
    /\ inp = NoInp
    /\ best = NoBest
    /\ u = None
    /\ x = None
    /\ cost = -1
    /\ i = 0
    /\ current_u = None
    /\ ret = NoReturn
    /\ exc = "none"
    /\ trace = <<>>
    /\ lqrFn = [k \in Keys |-> Undecided]
    /\ log = <<>>

\* entry of forward(Q, p, x_init, dt, current_u); lines 169-170
Enter(a, cu) ==
    /\ inp' = [Q |-> a.Q, p |-> a.p, x_init |-> a.x_init, dt |-> a.dt,
               current_u |-> cu]
    /\ current_u' = cu
    /\ best' = NoBest
    /\ u' = InitU(cu)
    /\ x' = None
    /\ cost' = -1
    /\ i' = 0
    /\ ret' = NoReturn
    /\ exc' = "none"
    /\ trace' = <<>>
    /\ pc' = "loop"
    /\ UNCHANGED <<system, T, step, eps, lqrFn, log>>

\* the first call on the instance, with any arguments
Call ==
    /\ pc = "idle"
    /\ \E a \in Problems, cu \in {c \in CallerU : c = None \/ c.val \in NextVals} :
          Enter(a, cu)

\* the caller invokes forward once more with the arguments of the call before
CallAgain ==
    /\ pc \in {"done", "raised"}
    /\ Len(log) < MaxCalls
    /\ Enter(Args(inp), inp.current_u)

\* one iteration of the for loop; lines 172-188
LoopIter ==
    /\ pc = "loop"
    /\ LoopCond(i, step)
    /\ LET nom == LoopNominal(u)
       IN \E o \in LQR(Args(inp), nom) :
            /\ lqrFn' = [lqrFn EXCEPT ![Key(Args(inp), nom)] = o]
            /\ trace' = Append(trace, SolveRec(Args(inp), nom, TRUE, o))
            /\ IF o.kind = "error"
               THEN /\ Raise("LQRError")
                    /\ u' = nom
                    /\ UNCHANGED <<x, cost, best, i>>
               ELSE /\ x' = OutX(o)
                    /\ u' = OutU(o)
                    /\ cost' = o.cost
                    /\ IF AssertOk(OutX(o), OutU(o))
                       THEN /\ best' = UpdateBest(best, OutU(o), o.cost, eps)
                            /\ i' = i + 1
                            /\ UNCHANGED <<pc, exc, ret, log>>
                       ELSE /\ Raise("AssertionError")
                            /\ UNCHANGED <<best, i>>
    /\ UNCHANGED <<system, T, step, eps, inp, current_u>>

\* after the loop: choose the nominal input, solve once more, return; 190-196
Terminal ==
    /\ pc = "loop"
    /\ ~LoopCond(i, step)
    /\ IF UseBest(step) /\ best.isNone
       THEN \* best['u'] on None
            /\ Raise("TypeError")
            /\ UNCHANGED <<current_u, x, u, cost, trace, lqrFn>>
       ELSE LET nom == IF UseBest(step) THEN best.u ELSE current_u
            IN /\ current_u' = nom
               /\ \E o \in LQR(Args(inp), nom) :
                    /\ lqrFn' = [lqrFn EXCEPT ![Key(Args(inp), nom)] = o]
                    /\ trace' = Append(trace, SolveRec(Args(inp), nom, FALSE, o))
                    /\ IF o.kind = "error"
                       THEN /\ Raise("LQRError")
                            /\ UNCHANGED <<x, u, cost>>
                       ELSE /\ x' = OutX(o)
                            /\ u' = OutU(o)
                            /\ cost' = o.cost
                            /\ ret' = [x |-> OutX(o), u |-> OutU(o), cost |-> o.cost]
                            /\ pc' = "done"
                            /\ exc' = "none"
                            /\ log' = Append(log, LogRec("return",
                                   [x |-> OutX(o), u |-> OutU(o), cost |-> o.cost],
                                   "none"))
    /\ UNCHANGED <<system, T, step, eps, inp, best, i>>

Next == Call \/ CallAgain \/ LoopIter \/ Terminal

Spec == Init /\ [][Next]_vars

\* forward is straight-line sequential code: a started call keeps running
FairSpec == Spec /\ WF_vars(LoopIter) /\ WF_vars(Terminal)

\* ---- helpers of the properties ---------------------------------------------
\* a step that completes one loop iteration
IterStep == pc = "loop" /\ pc' = "loop" /\ i' = i + 1

\* a step that enters forward
CallStep == pc # "loop" /\ pc' = "loop"

Last == trace[Len(trace)]

TerminalSolved == Len(trace) > 0 /\ ~Last.inLoop

Triple(o) == [x |-> OutX(o), u |-> OutU(o), cost |-> o.cost]

InLoopSolves == {k \in 1..Len(trace) : trace[k].inLoop}
TerminalSolves == {k \in 1..Len(trace) : ~trace[k].inLoop}

\* a solve whose failure forward must let through
Failed(r) ==
    \/ r.out.kind = "error"
    \/ r.inLoop /\ (r.out.xndim # ReqNdim \/ r.out.undim # ReqNdim)

FailureOf(r) == IF r.out.kind = "error" THEN "LQRError" ELSE "AssertionError"

\* the cost forward returns with step = 1 on the same arguments: the terminal
\* solve then starts from the caller's current_u
Step1Cost == lqrFn[Key(Args(inp), inp.current_u)].cost

\* ---- claims ------------------------------------------------------------------

\* C1: acceptance rule -- the candidate of the first iteration always becomes
\* best; a later candidate replaces best (u and cost) exactly when its cost is
\* <= best.cost + eps; otherwise best is left unchanged by the iteration.
C1_AcceptanceRule ==
    [][IterStep =>
         IF i = 0
         THEN best' = [isNone |-> FALSE, u |-> u', cost |-> cost']
         ELSE IF cost' <= best.cost + eps
              THEN best' = [isNone |-> FALSE, u |-> u', cost |-> cost']
              ELSE best' = best]_vars

\* a near-tie (cost = best.cost + eps, eps > 0) with a new trajectory was accepted
C1_Witness ==
    /\ pc = "loop" /\ i = 2 /\ eps > 0
    /\ trace[2].out.cost = trace[1].out.cost + eps
    /\ trace[2].out.u # trace[1].out.u
    /\ best.cost = trace[2].out.cost /\ best.u = u

\* C2: for step >= 1 the returned cost is at most the cost returned with
\* step = 1 on the same arguments, plus eps.
C2_NeverWorseThanStep1 ==
    (pc = "done" /\ step >= 1) => ret.cost <= Step1Cost + eps

C4_TerminalStep ==
    TerminalSolved =>
        /\ Last.nominal = (IF step > 1 THEN best.u ELSE inp.current_u)
        /\ step > 1 =>
             \E j \in 1..step :
                 /\ best.u = OutU(trace[j].out) /\ best.cost = trace[j].out.cost
                 /\ \A k \in (j+1)..step : trace[k].out.cost > best.cost + eps
        /\ pc = "done" => ret = Triple(Last.out)

\* the last candidate was rejected and the terminal solve started from an
\* earlier one
C4_Witness ==
    /\ pc = "done" /\ step > 1
    /\ trace[step].out.cost > best.cost + eps
    /\ Last.nominal # OutU(trace[step].out)

\* C5: with step = 0 exactly one solve is made, the terminal one, from the
\* caller's current_u; best['u'] is never evaluated while best is None.
C5_StepZero ==
    /\ exc # "TypeError"
    /\ (pc \in {"done", "raised"} /\ step = 0) =>
          /\ Len(trace) = 1
          /\ ~trace[1].inLoop
          /\ trace[1].nominal = inp.current_u
          /\ best.isNone

C5_Witness ==
    pc = "done" /\ step = 0 /\ inp.current_u # None /\ Len(trace) = 1

\* C6 (as claimed): best.cost never increases from one iteration to the next.
C6_BestCostNonIncreasing ==
    [][(IterStep /\ ~best.isNone) => best'.cost <= best.cost]_vars

\* C6 (amended): from one iteration to the next best.cost increases by at most
\* eps; it is non-increasing when eps = 0.
C6_BestCostRisesAtMostEps ==
    [][(IterStep /\ ~best.isNone) => best'.cost <= best.cost + eps]_vars

\* best.cost has drifted above the cost of the first candidate
C6_Witness ==
    pc = "loop" /\ i >= 2 /\ eps > 0 /\ best.cost > trace[1].out.cost

\* C7: every in-loop solve gets a nominal input that is None or carries no
\* autograd history.
C7_InLoopNominalDetached ==
    \A k \in 1..Len(trace) :
        trace[k].inLoop => (trace[k].nominal = None \/ ~trace[k].nominal.graph)

\* the caller's tensor had history, and a second iteration was fed the first
\* one's output
C7_Witness ==
    /\ Len(trace) >= 2 /\ trace[2].inLoop
    /\ inp.current_u.graph
    /\ trace[2].nominal.val = trace[1].out.u

\* C8: a failing solve or a failing in-loop assertion ends the call with that
\* failure: it is the last solve, nothing is returned.
C8_FailurePropagates ==
    \A k \in 1..Len(trace) :
        Failed(trace[k]) =>
            /\ k = Len(trace)
            /\ pc = "raised"
            /\ exc = FailureOf(trace[k])
            /\ ret = NoReturn
            /\ log[Len(log)].outcome = "raise"
            /\ log[Len(log)].exc = exc

C8_Witness ==
    /\ pc = "raised" /\ exc = "AssertionError"
    /\ Len(trace) = 2 /\ step = MaxStep

\* C9: calls on the same instance with identical arguments have identical
\* outcomes (the same return value, or the same failure); forward leaves system,
\* T, step and eps alone and starts every call with best unset and u = current_u.
C9_Idempotent ==
    /\ [](\A a, b \in 1..Len(log) :
             log[a].inp = log[b].inp =>
                 /\ log[a].outcome = log[b].outcome
                 /\ log[a].ret = log[b].ret
                 /\ log[a].exc = log[b].exc)
    /\ [][/\ system' = system /\ T' = T /\ step' = step /\ eps' = eps
          /\ CallStep => (best' = NoBest /\ u' = inp'.current_u)]_vars

\* two finished calls with the same arguments, the first having left a best
\* record and a u behind
C9_Witness ==
    /\ Len(log) = 2 /\ log[1].inp = log[2].inp
    /\ log[2].outcome = "return" /\ step >= 2
    /\ log[1].ret.u # log[1].inp.current_u

\* C10: a call that returns has made exactly step in-loop solves and one
\* terminal solve; every call ends.
C10_FixedBudget ==
    /\ [](pc = "done" =>
             /\ Cardinality(InLoopSolves) = step
             /\ Cardinality(TerminalSolves) = 1
             /\ Len(trace) = step + 1)
    /\ (pc = "loop" ~> pc \in {"done", "raised"})

\* the candidates had converged after the first iteration, the loop went on
C10_Witness ==
    /\ pc = "done" /\ step >= 3
    /\ \A k \in 1..step : trace[k].out = trace[1].out

\* C11: warm-start order -- the first in-loop solve gets the caller's current_u
\* (detached, or None); the solve of iteration k+1 gets the input trajectory
\* output by iteration k, accepted as best or not; every solve of the call,
\* the terminal one included, is given the same system, Q, p, T, x_init and dt.
C11_WarmStartOrder ==
    \A k \in 1..Len(trace) :
        /\ trace[k].system = system /\ trace[k].T = T
        /\ trace[k].Q = inp.Q /\ trace[k].p = inp.p
        /\ trace[k].x_init = inp.x_init /\ trace[k].dt = inp.dt
        /\ (trace[k].inLoop /\ k = 1) =>
              trace[k].nominal =
                  (IF inp.current_u = None THEN None ELSE Detach(inp.current_u))
        /\ (trace[k].inLoop /\ k > 1) =>
              trace[k].nominal = Detach(OutU(trace[k-1].out))

\* the second candidate was rejected, and the third iteration started from it
\* all the same
C11_Witness ==
    /\ Len(trace) >= 3 /\ trace[3].inLoop
    /\ trace[2].out.cost > trace[1].out.cost + eps
    /\ trace[2].out.u # trace[1].out.u
    /\ best.u = OutU(trace[1].out)
    /\ trace[3].nominal.val = trace[2].out.u

\* C12: after every loop iteration k >= 1, best.cost is at most the cost of the
\* candidate of iteration k (an accepted candidate equals best.cost, a rejected
\* one exceeds best.cost + eps), and best.cost <= c_j + (k - j) * eps for every
\* candidate cost c_j with j <= k.
C12_BestCostBound ==
    (i >= 1 /\ Len(trace) >= i) =>
        /\ ~best.isNone
        /\ best.cost <= trace[i].out.cost
        /\ \/ trace[i].out.cost = best.cost
           \/ trace[i].out.cost > best.cost + eps
        /\ \A j \in 1..i : best.cost <= trace[j].out.cost + (i - j) * eps

\* best.cost has climbed by eps in each of two iterations: the bound is met
\* with equality for j = 1, k = 3
C12_Witness ==
    /\ i = 3 /\ eps > 0 /\ Len(trace) >= 3
    /\ trace[2].out.cost = trace[1].out.cost + eps
    /\ trace[3].out.cost = trace[2].out.cost + eps
    /\ best.cost = trace[1].out.cost + 2 * eps

\* the iteration whose candidate is best after k iterations, recomputed from
\* the candidate costs
RECURSIVE BestIdx(_)
BestIdx(k) ==
    IF k <= 1 THEN 1
    ELSE IF trace[k].out.cost <= trace[BestIdx(k-1)].out.cost + eps
         THEN k
         ELSE BestIdx(k-1)

\* C13: with step > 1, if best was last updated in iteration j < step, the
\* terminal solve repeats the solve of iteration j+1 (same nominal values) and
\* so succeeds and returns, in value, the candidate of iteration j+1, which the
\* loop rejected: the returned cost exceeds best.cost + eps.  Only if best was
\* updated in the last iteration does the terminal solve continue from the
\* last iterate.
C13_TerminalRepeatsRejected ==
    (TerminalSolved /\ step > 1) =>
        LET j == BestIdx(step) IN
        /\ best.u = OutU(trace[j].out)
        /\ best.cost = trace[j].out.cost
        /\ j < step =>
             /\ Last.nominal.val = trace[j+1].nominal.val
             /\ Last.out = trace[j+1].out
             /\ pc = "done"
             /\ ret = Triple(trace[j+1].out)
             /\ ret.cost > best.cost + eps
        /\ j = step => Last.nominal = OutU(trace[step].out)

\* best was last updated in the second of three iterations; the call returned
\* the rejected third candidate
C13_Witness ==
    /\ pc = "done" /\ step = 3 /\ BestIdx(3) = 2
    /\ ret = Triple(trace[3].out)
    /\ ret.u.val # best.u.val
    /\ ret.cost > best.cost + eps

====
